---- MODULE Spec2Model ----
(***************************************************************************)
(* A model of package execx (src/execx.go): Wrap, the decorated            *)
(* *execx.ExitError with its accessors and its fmt.Formatter, and the      *)
(* command-line renderer cmdline, together with the host program that      *)
(* builds exec.Cmd descriptors, runs them, changes the process             *)
(* environment and working directory, and calls the package.               *)
(*                                                                         *)
(* A Go string is a sequence of one-character strings, so that             *)
(* filepath.Base, strings.Join and fmt's concatenations are computed.      *)
(* A Go slice is a header [arr, len] into the heap of backing arrays       *)
(* (arr = 0 is the nil slice), so that two holders of one slice see each   *)
(* other's element writes. A pointer is an index into a heap sequence,     *)
(* 0 being nil.                                                            *)
(***************************************************************************)
EXTENDS Naturals, Sequences, FiniteSets

VARIABLES
    cmds,      \* heap of *exec.Cmd: [Path, Args, Dir, Env, ProcessState]
    arrays,    \* heap of []string backing arrays
    errs,      \* heap of error objects made by os/exec: [type, ProcessState, Stderr, msg]
    procs,     \* number of *os.ProcessState objects allocated so far
    osEnv,     \* the process environment block: a sequence of "KEY=VALUE" strings
    cwd,       \* what os.Getwd answers: [ok, dir]
    wrapped,   \* heap of *execx.ExitError built by Wrap
    origin,    \* history: origin[i] is the err argument of the Wrap call that built wrapped[i]
    ret        \* the call of the package that has just returned, with its result

vars == <<cmds, arrays, errs, procs, osEnv, cwd, wrapped, origin, ret>>

---------------------------------------------------------------------------
(* Bounds of the model.                                                    *)

MaxCmds == 2
MaxWraps == 2
MaxCaptured == 1
MaxPathLen == 3
MaxArgs == 2

---------------------------------------------------------------------------
(* Strings.                                                                *)

Sep == "/"

RECURSIVE Join(_, _)
\* strings.Join(elems, sep)
Join(elems, sep) ==
    IF Len(elems) = 0 THEN <<>>
    ELSE IF Len(elems) = 1 THEN elems[1]
    ELSE elems[1] \o sep \o Join(Tail(elems), sep)

RECURSIVE StripTrailingSeps(_)
\* filepath.Base, first loop: drop the trailing separators
StripTrailingSeps(p) ==
    IF Len(p) > 0 /\ p[Len(p)] = Sep
    THEN StripTrailingSeps(SubSeq(p, 1, Len(p) - 1))
    ELSE p

RECURSIVE LastSepIndex(_, _)
\* filepath.Base, second loop: the index of the last separator at or before i, 0 if none
LastSepIndex(p, i) ==
    IF i = 0 THEN 0
    ELSE IF p[i] = Sep THEN i
    ELSE LastSepIndex(p, i - 1)

\* filepath.Base(path) on a slash-separated system
Base(path) ==
    IF Len(path) = 0 THEN <<".">>
    ELSE LET s == StripTrailingSeps(path)
             i == LastSepIndex(s, Len(s))
             t == SubSeq(s, i + 1, Len(s))
         IN  IF Len(t) = 0 THEN <<Sep>> ELSE t

---------------------------------------------------------------------------
(* Slices.                                                                 *)

NilSlice == [arr |-> 0, len |-> 0]

\* the elements a slice header denotes in heap h
Elems(h, sl) == IF sl.arr = 0 THEN <<>> ELSE SubSeq(h[sl.arr], 1, sl.len)

---------------------------------------------------------------------------
(* The command-line renderer.                                              *)

\* func cmdline(path string, args []string) string; args[1:] panics with
\* "slice bounds out of range [1:0]" when len(args) = 0
cmdline(path, args) ==
    IF Len(args) < 1
    THEN [panic |-> TRUE, out |-> <<>>]
    ELSE [panic |-> FALSE,
          out |-> Join(<<Base(path)>> \o SubSeq(args, 2, Len(args)), <<" ">>)]

---------------------------------------------------------------------------
(* The environment collaborator (package acln.ro/env), as execx uses it:   *)
(* a "KEY=VALUE" string splits at its first "=", a Map is a function from  *)
(* keys to values, and a later entry for a key replaces an earlier one.    *)

EmptyMap == [k \in {} |-> <<>>]

RECURSIVE IndexOfEq(_, _)
\* the index of the first "=" of s at or after i, 0 if none
IndexOfEq(s, i) ==
    IF i > Len(s) THEN 0
    ELSE IF s[i] = "=" THEN i
    ELSE IndexOfEq(s, i + 1)

KeyOf(entry) == SubSeq(entry, 1, IndexOfEq(entry, 1) - 1)

ValueOf(entry) == SubSeq(entry, IndexOfEq(entry, 1) + 1, Len(entry))

\* env.Merge(l, r): the entries of r override those of l
Merge(l, r) ==
    [k \in (DOMAIN l) \cup (DOMAIN r) |-> IF k \in DOMAIN r THEN r[k] ELSE l[k]]

RECURSIVE ParseUpTo(_, _)
ParseUpTo(entries, n) ==
    IF n = 0 THEN EmptyMap
    ELSE LET e == entries[n]
         IN  Merge(ParseUpTo(entries, n - 1),
                   [k \in {KeyOf(e)} |-> ValueOf(e)])

\* env.Parse(vars...)
Parse(entries) == ParseUpTo(entries, Len(entries))

\* env.Variables(): a fresh Map parsed from the process environment block
Variables(block) == Parse(block)

\* the keys of a map in display order
KeyOrder == << <<"A">>, <<"B">> >>

RECURSIVE EnvDetailFrom(_, _)
EnvDetailFrom(m, i) ==
    IF i > Len(KeyOrder) THEN <<>>
    ELSE (IF KeyOrder[i] \in DOMAIN m
          THEN KeyOrder[i] \o <<"=">> \o m[KeyOrder[i]] \o <<"\n">>
          ELSE <<>>) \o EnvDetailFrom(m, i + 1)

\* fmt.Fprintf(w, "%+v", e.ChildEnv): one line per variable
EnvDetail(m) == EnvDetailFrom(m, 1)

---------------------------------------------------------------------------
(* The values the host program draws from.                                 *)

NilBytes == [isNil |-> TRUE, bytes |-> <<>>]

Captured(b) == [isNil |-> FALSE, bytes |-> b]

NilEnv == [isNil |-> TRUE, vars |-> <<>>]

SetEnv(v) == [isNil |-> FALSE, vars |-> v]

\* what exec.Cmd.Path is set to
Paths == { <<"/", "b", "/", "g">> }

\* exec.Command(name, arg...) sets Args to name followed by arg; a Cmd literal leaves Args nil
ArgLists == { <<>>, << <<"g">> >>, << <<"g">>, <<"f">> >> }

\* what the host writes into an element of cmd.Args
ArgStrings == { <<"r">> }

Dirs == { <<>>, <<"/", "d">> }

WorkDirs == { <<"/", "w">> }

CmdEnvs == { NilEnv, SetEnv(<<>>), SetEnv(<< <<"B", "=", "2">> >>),
             SetEnv(<< <<"A", "=", "2">> >>) }

HostKeys == { <<"A">> }

HostValues == { <<"1">>, <<"2">> }

\* what ExitError.Stderr holds: nil after Run, the captured bytes after Output, or
\* an empty non-nil slice stored in the exported field
StderrOutcomes == { NilBytes, Captured(<<>>), Captured(<<"w">>) }

ExitCodes == { <<"1">>, <<"2">> }

\* paths the formatted descriptors carry
FormatPaths == { <<"/", "b", "/", "g">>, <<"g">>, <<>> }

Verbs == { "v", "d", "s" }

---------------------------------------------------------------------------
(* Error values. An error interface value is nil, a pointer to an object   *)
(* of os/exec or errors (heap errs), or a pointer to an *execx.ExitError   *)
(* (heap wrapped).                                                         *)

NilErr == [kind |-> "nil", ptr |-> 0]

ErrPtr(i) == [kind |-> "err", ptr |-> i]

WrappedPtr(i) == [kind |-> "wrapped", ptr |-> i]

ErrValues ==
    {NilErr} \cup {ErrPtr(i) : i \in 1..Len(errs)}
             \cup {WrappedPtr(i) : i \in 1..Len(wrapped)}

\* the sentinel of errors.New("test")
Sentinel == [type |-> "*errors.errorString", ProcessState |-> 0,
             Stderr |-> NilBytes, msg |-> <<"t">>]

\* (*exec.ExitError).Error() is ProcessState.String()
ExitMsg(code) == <<"x">> \o code

---------------------------------------------------------------------------
(* func Wrap(err error, cmd *exec.Cmd) error                               *)

\* a plausible bug: every non-nil error object is taken for an *exec.ExitError
IsExecExitErrorAnyObject(e) == e.kind = "err"

\* ee, ok := err.(*exec.ExitError)
IsExecExitError(e) == e.kind = "err" /\ errs[e.ptr].type = "*exec.ExitError"

\* a plausible bug: the test is that both have completed, not that they are one process
SameProcessBothCompleted(ee, cmd) == ee.ProcessState /= 0 /\ cmd.ProcessState /= 0

\* ee.ProcessState != cmd.ProcessState, negated: the two pointers are the same
SameProcess(ee, cmd) == ee.ProcessState = cmd.ProcessState

\* if newee.Dir == "": whether os.Getwd is called
GetwdConsulted(cmd) == cmd.Dir = <<>>

\* a plausible bug: the working directory is asked first and overrides cmd.Dir
DirOfPreferGetwd(cmd, wd) == IF wd.ok THEN wd.dir ELSE cmd.Dir

\* Dir: cmd.Dir, replaced by the working directory when empty and os.Getwd succeeds
DirOf(cmd, wd) ==
    IF GetwdConsulted(cmd)
    THEN (IF wd.ok THEN wd.dir ELSE <<>>)
    ELSE cmd.Dir

\* a plausible bug: the explicit environment is merged over the parent's
ChildEnvOfMerged(cmd, parentEnv) ==
    IF cmd.Env.isNil THEN parentEnv ELSE Merge(parentEnv, Parse(cmd.Env.vars))

\* a plausible bug: the test is len(cmd.Env) == 0, which takes an empty explicit
\* environment for none
ChildEnvOfLen(cmd, parentEnv) ==
    IF cmd.Env.isNil \/ Len(cmd.Env.vars) = 0 THEN parentEnv ELSE Parse(cmd.Env.vars)

\* if cmd.Env == nil { ChildEnv = ParentEnv } else { ChildEnv = env.Parse(cmd.Env...) }
ChildEnvOf(cmd, parentEnv) ==
    IF cmd.Env.isNil THEN parentEnv ELSE Parse(cmd.Env.vars)

\* newee := &ExitError{...} as it is when Wrap returns it
NewExitError(e, cmd, block, wd) ==
    [ExitError |-> e.ptr,
     Path      |-> cmd.Path,
     Args      |-> cmd.Args,
     Dir       |-> DirOf(cmd, wd),
     ParentEnv |-> Variables(block),
     ChildEnv  |-> ChildEnvOf(cmd, Variables(block))]

\* the branch Wrap takes; c = 0 is a nil *exec.Cmd, whose ProcessState cannot be read
WrapBranch(e, c) ==
    IF e.kind = "nil" THEN "nil"
    ELSE IF ~IsExecExitError(e) THEN "unchanged"
    ELSE IF c = 0 THEN "panic"
    ELSE IF ~SameProcess(errs[e.ptr], cmds[c]) THEN "unchanged"
    ELSE "decorate"

NoCall == [op |-> "none"]

Wrap(e, c) ==
    LET b == WrapBranch(e, c) IN
    /\ IF b = "decorate"
       THEN /\ wrapped' = Append(wrapped, NewExitError(e, cmds[c], osEnv, cwd))
            /\ origin' = Append(origin, e)
            /\ ret' = [op |-> "Wrap", err |-> e, cmd |-> c, panic |-> FALSE,
                       result |-> WrappedPtr(Len(wrapped) + 1),
                       envRead |-> TRUE,
                       getwd |-> GetwdConsulted(cmds[c])]
       ELSE /\ UNCHANGED <<wrapped, origin>>
            /\ ret' = [op |-> "Wrap", err |-> e, cmd |-> c, panic |-> (b = "panic"),
                       result |-> IF b = "unchanged" THEN e ELSE NilErr,
                       envRead |-> FALSE,
                       getwd |-> FALSE]
    /\ UNCHANGED <<cmds, arrays, errs, procs, osEnv, cwd>>

---------------------------------------------------------------------------
(* type ExitError: accessors and fmt.Formatter                             *)

\* func (e *ExitError) Unwrap() error
Unwrap(w) == ErrPtr(w.ExitError)

\* a plausible bug: Error() puts the command line before the message
ErrorWithCmdline(w) ==
    cmdline(w.Path, Elems(arrays, w.Args)).out \o <<":", " ">> \o errs[w.ExitError].msg

\* func (e *ExitError) Error() string
Error(w) == errs[w.ExitError].msg

\* func (e *ExitError) Cmdline() string
CmdlineOf(w) == cmdline(w.Path, Elems(arrays, w.Args))

\* func Cmdline(cmd *exec.Cmd) string
Cmdline(cmd) == cmdline(cmd.Path, Elems(arrays, cmd.Args))

\* func (e *ExitError) formatBasic(w io.Writer)
formatBasic(w) ==
    LET c  == CmdlineOf(w)
        ee == errs[w.ExitError]
    IN  IF c.panic THEN [panic |-> TRUE, out |-> <<>>]
        ELSE [panic |-> FALSE,
              out |-> c.out \o <<":", " ">> \o ee.msg
                      \o (IF ~ee.Stderr.isNil
                          THEN <<":", " ">> \o ee.Stderr.bytes
                          ELSE <<>>)]

\* e.UserTime(), e.SystemTime() as fmt prints a time.Duration
Duration == <<"0", "s">>

\* func (e *ExitError) formatDetail(w io.Writer)
formatDetail(w) ==
    LET b == formatBasic(w) IN
    IF b.panic THEN b
    ELSE [panic |-> FALSE,
          out |-> b.out \o <<"\n">>
                  \o <<"workdir: ">> \o w.Dir \o <<"\n">>
                  \o <<"user time: ">> \o Duration \o <<"\n">>
                  \o <<"system time: ">> \o Duration \o <<"\n">>
                  \o <<"\n">>
                  \o EnvDetail(w.ChildEnv)]

\* a plausible bug: the verb is not looked at
FormatAnyVerb(w, verb, plus) == IF plus THEN formatDetail(w) ELSE formatBasic(w)

\* func (e *ExitError) Format(s fmt.State, verb rune); plus is s.Flag('+').
\* A panic leaves Format without output of its own.
Format(w, verb, plus) ==
    IF verb /= "v" THEN [panic |-> FALSE, out |-> <<>>]
    ELSE IF plus THEN formatDetail(w)
    ELSE formatBasic(w)

CallUnwrap(i) ==
    /\ ret' = [op |-> "Unwrap", target |-> i, result |-> Unwrap(wrapped[i])]
    /\ UNCHANGED <<cmds, arrays, errs, procs, osEnv, cwd, wrapped, origin>>

CallError(i) ==
    /\ ret' = [op |-> "Error", target |-> i, result |-> Error(wrapped[i])]
    /\ UNCHANGED <<cmds, arrays, errs, procs, osEnv, cwd, wrapped, origin>>

CallFormat(i, verb, plus) ==
    /\ ret' = [op |-> "Format", target |-> i, verb |-> verb, plus |-> plus,
               result |-> Format(wrapped[i], verb, plus)]
    /\ UNCHANGED <<cmds, arrays, errs, procs, osEnv, cwd, wrapped, origin>>

CallCmdlineOf(i) ==
    /\ ret' = [op |-> "ExitError.Cmdline", target |-> i, result |-> CmdlineOf(wrapped[i])]
    /\ UNCHANGED <<cmds, arrays, errs, procs, osEnv, cwd, wrapped, origin>>

CallCmdline(c) ==
    /\ ret' = [op |-> "Cmdline", cmd |-> c, result |-> Cmdline(cmds[c])]
    /\ UNCHANGED <<cmds, arrays, errs, procs, osEnv, cwd, wrapped, origin>>

---------------------------------------------------------------------------
(* The host program.                                                       *)

\* exec.Command(name, arg...) or an &exec.Cmd{} literal, then cmd.Dir = ..., cmd.Env = ...
NewCmd(path, args, dir, env) ==
    /\ Len(cmds) < MaxCmds
    /\ arrays' = IF Len(args) = 0 THEN arrays ELSE Append(arrays, args)
    /\ cmds' = Append(cmds,
                 [Path |-> path,
                  Args |-> IF Len(args) = 0 THEN NilSlice
                           ELSE [arr |-> Len(arrays) + 1, len |-> Len(args)],
                  Dir |-> dir, Env |-> env, ProcessState |-> 0])
    /\ ret' = NoCall
    /\ UNCHANGED <<errs, procs, osEnv, cwd, wrapped, origin>>

\* cmd.Run() or cmd.Output() of a child that exits with a nonzero status:
\* cmd.ProcessState and the returned *exec.ExitError share one new *os.ProcessState
RunFails(c, stderr, code) ==
    /\ cmds[c].ProcessState = 0
    /\ procs' = procs + 1
    /\ cmds' = [cmds EXCEPT ![c].ProcessState = procs + 1]
    /\ errs' = Append(errs, [type |-> "*exec.ExitError", ProcessState |-> procs + 1,
                             Stderr |-> stderr, msg |-> ExitMsg(code)])
    /\ ret' = NoCall
    /\ UNCHANGED <<arrays, osEnv, cwd, wrapped, origin>>

\* cmd.Run() of a child that exits with status 0: a nil error
RunSucceeds(c) ==
    /\ cmds[c].ProcessState = 0
    /\ procs' = procs + 1
    /\ cmds' = [cmds EXCEPT ![c].ProcessState = procs + 1]
    /\ ret' = NoCall
    /\ UNCHANGED <<arrays, errs, osEnv, cwd, wrapped, origin>>

\* cmd.Args[i] = s
SetArg(c, i, s) ==
    /\ i \in 1..cmds[c].Args.len
    /\ arrays[cmds[c].Args.arr][i] /= s
    /\ arrays' = [arrays EXCEPT ![cmds[c].Args.arr][i] = s]
    /\ ret' = NoCall
    /\ UNCHANGED <<cmds, errs, procs, osEnv, cwd, wrapped, origin>>

\* cmd.Env = env
SetCmdEnv(c, env) ==
    /\ cmds[c].Env /= env
    /\ cmds' = [cmds EXCEPT ![c].Env = env]
    /\ ret' = NoCall
    /\ UNCHANGED <<arrays, errs, procs, osEnv, cwd, wrapped, origin>>

RECURSIVE WithoutKey(_, _)
WithoutKey(block, k) ==
    IF Len(block) = 0 THEN <<>>
    ELSE IF KeyOf(block[1]) = k THEN WithoutKey(Tail(block), k)
    ELSE <<block[1]>> \o WithoutKey(Tail(block), k)

\* os.Setenv(k, v)
Setenv(k, v) ==
    /\ osEnv' = Append(WithoutKey(osEnv, k), k \o <<"=">> \o v)
    /\ osEnv' /= osEnv
    /\ ret' = NoCall
    /\ UNCHANGED <<cmds, arrays, errs, procs, cwd, wrapped, origin>>

\* os.Unsetenv(k)
Unsetenv(k) ==
    /\ osEnv' = WithoutKey(osEnv, k)
    /\ osEnv' /= osEnv
    /\ ret' = NoCall
    /\ UNCHANGED <<cmds, arrays, errs, procs, cwd, wrapped, origin>>

\* os.Chdir(d)
Chdir(d) ==
    /\ cwd' = [ok |-> TRUE, dir |-> d]
    /\ cwd' /= cwd
    /\ ret' = NoCall
    /\ UNCHANGED <<cmds, arrays, errs, procs, osEnv, wrapped, origin>>

\* the working directory is removed under the process: os.Getwd returns an error
LoseCwd ==
    /\ cwd.ok
    /\ cwd' = [ok |-> FALSE, dir |-> <<>>]
    /\ ret' = NoCall
    /\ UNCHANGED <<cmds, arrays, errs, procs, osEnv, wrapped, origin>>

---------------------------------------------------------------------------
(* The program that runs several commands and pairs errors and             *)
(* descriptors in every way (testWrapNil, testWrapNotExitError,            *)
(* testWrapAnotherError, testExitErrorErrorMethod, testExitErrorUnwrap).   *)

\* the decorated values the host keeps alive are bounded
HeapHasRoom(e, c) == WrapBranch(e, c) = "decorate" => Len(wrapped) < MaxWraps

Init ==
    /\ cmds = <<>>
    /\ arrays = <<>>
    /\ errs = <<Sentinel>>
    /\ procs = 0
    /\ osEnv = << <<"A", "=", "1">> >>
    /\ cwd = [ok |-> TRUE, dir |-> <<"/", "w">>]
    /\ wrapped = <<>>
    /\ origin = <<>>
    /\ ret = NoCall

Next ==
    \/ \E path \in Paths : NewCmd(path, << <<"g">>, <<"f">> >>, <<>>, NilEnv)
    \/ \E c \in 1..Len(cmds), code \in ExitCodes : RunFails(c, NilBytes, code)
    \/ \E c \in 1..Len(cmds) : RunSucceeds(c)
    \/ \E e \in ErrValues, c \in 0..Len(cmds) : HeapHasRoom(e, c) /\ Wrap(e, c)
    \/ \E i \in 1..Len(wrapped) : CallUnwrap(i)
    \/ \E i \in 1..Len(wrapped) : CallError(i)

Spec == Init /\ [][Next]_vars

---------------------------------------------------------------------------
(* The program that wraps the error of one command while it changes the    *)
(* process environment, the working directory and the descriptor           *)
(* (testWrapWithParentEnv, testWrapWithCustomEnv).                         *)

\* a descriptor as NewCmd builds it, before it is run
FreshCmd(path, args, dir, env) ==
    [Path |-> path,
     Args |-> IF Len(args) = 0 THEN NilSlice ELSE [arr |-> 1, len |-> Len(args)],
     Dir |-> dir, Env |-> env, ProcessState |-> 0]

InitCapture ==
    /\ \E path \in Paths, args \in ArgLists, dir \in Dirs, env \in CmdEnvs :
          /\ cmds = <<FreshCmd(path, args, dir, env)>>
          /\ arrays = IF Len(args) = 0 THEN <<>> ELSE <<args>>
    /\ errs = <<Sentinel>>
    /\ procs = 0
    /\ osEnv \in { <<>>, << <<"A", "=", "1">> >> }
    /\ cwd \in { [ok |-> TRUE, dir |-> d] : d \in WorkDirs }
    /\ wrapped = <<>>
    /\ origin = <<>>
    /\ ret = NoCall

\* the decorated values this host keeps alive
CaptureHasRoom == Len(wrapped) < MaxCaptured

NextCapture ==
    \/ RunFails(1, NilBytes, <<"1">>)
    \/ \E i \in 1..MaxArgs, s \in ArgStrings : SetArg(1, i, s)
    \/ \E env \in CmdEnvs : SetCmdEnv(1, env)
    \/ \E k \in HostKeys, v \in HostValues : Setenv(k, v)
    \/ \E k \in HostKeys : Unsetenv(k)
    \/ \E d \in WorkDirs : Chdir(d)
    \/ LoseCwd
    \/ \E e \in ErrValues : IsExecExitError(e) /\ CaptureHasRoom /\ Wrap(e, 1)

SpecCapture == InitCapture /\ [][NextCapture]_vars

---------------------------------------------------------------------------
(* The program that formats the wrapped error of one command               *)
(* (testExitErrorPrintBasic, testExitErrorPrintDetail,                     *)
(* testExitErrorPrintBadVerb).                                             *)

InitFormat ==
    /\ \E path \in FormatPaths, args \in ArgLists, dir \in Dirs :
          /\ cmds = <<FreshCmd(path, args, dir, NilEnv)>>
          /\ arrays = IF Len(args) = 0 THEN <<>> ELSE <<args>>
    /\ errs = <<Sentinel>>
    /\ procs = 0
    /\ osEnv = << <<"A", "=", "1">> >>
    /\ cwd = [ok |-> TRUE, dir |-> <<"/", "w">>]
    /\ wrapped = <<>>
    /\ origin = <<>>
    /\ ret = NoCall

NextFormat ==
    \/ \E stderr \in StderrOutcomes, code \in ExitCodes : RunFails(1, stderr, code)
    \/ \E e \in ErrValues : HeapHasRoom(e, 1) /\ Wrap(e, 1)
    \/ \E i \in 1..Len(wrapped), verb \in Verbs, plus \in BOOLEAN : CallFormat(i, verb, plus)
    \/ \E i \in 1..Len(wrapped) : CallCmdlineOf(i)

SpecFormat == InitFormat /\ [][NextFormat]_vars

---------------------------------------------------------------------------
(* The renderer applied to every path and argument sequence within the     *)
(* bounds (TestCmdline).                                                   *)

RECURSIVE SeqsUpTo(_, _)
\* the sequences over S of length at most n
SeqsUpTo(S, n) ==
    IF n = 0 THEN { <<>> }
    ELSE LET shorter == SeqsUpTo(S, n - 1)
         IN  shorter \cup { Append(q, x) : q \in shorter, x \in S }

PathChars == { "/", "g", "b" }

InitCmdline ==
    /\ \E path \in SeqsUpTo(PathChars, MaxPathLen),
          args \in SeqsUpTo({ <<"g">>, <<"f">> }, MaxArgs) :
          /\ cmds = <<FreshCmd(path, args, <<>>, NilEnv)>>
          /\ arrays = IF Len(args) = 0 THEN <<>> ELSE <<args>>
    /\ errs = <<Sentinel>>
    /\ procs = 0
    /\ osEnv = <<>>
    /\ cwd = [ok |-> TRUE, dir |-> <<"/", "w">>]
    /\ wrapped = <<>>
    /\ origin = <<>>
    /\ ret = NoCall

NextCmdline == CallCmdline(1)

SpecCmdline == InitCmdline /\ [][NextCmdline]_vars

---------------------------------------------------------------------------
(* What the claims speak of, stated apart from the definitions above.      *)

\* err is a process-exit-status error: its dynamic type is *exec.ExitError
IsExitStatusError(e) == e.kind = "err" /\ errs[e.ptr].type = "*exec.ExitError"

\* a Wrap call has just returned a decorated exit error built by that call
Decorated ==
    /\ ret.op = "Wrap"
    /\ ~ret.panic
    /\ ret.result.kind = "wrapped"
    /\ ret.result /= ret.err

\* the parent environment as it is when Wrap returns
ParentSnapshot == Parse(osEnv)

KeysOf(entries) == { KeyOf(entries[i]) : i \in 1..Len(entries) }

\* the value the last entry for key k gives it
LastValue(entries, k) ==
    LET n == CHOOSE i \in 1..Len(entries) :
                 /\ KeyOf(entries[i]) = k
                 /\ \A j \in (i + 1)..Len(entries) : KeyOf(entries[j]) /= k
    IN  ValueOf(entries[n])

\* the rendering the renderer is to give for every argument sequence
Rendering(path, args) ==
    Join(<<Base(path)>> \o (IF Len(args) = 0 THEN <<>> ELSE Tail(args)), <<" ">>)

---------------------------------------------------------------------------
(* Claims checked under Spec.                                              *)

\* C1: Wrap of a process-exit-status error with a descriptor decorates only when the
\* error's ProcessState is the descriptor's; whenever the two differ it returns the
\* very err it was given, whichever error and descriptor are paired.
C1_MismatchReturnsErr ==
    (ret.op = "Wrap" /\ IsExitStatusError(ret.err) /\ ret.cmd /= 0) =>
        LET ee == errs[ret.err.ptr]
            cmd == cmds[ret.cmd]
        IN  /\ ~ret.panic
            /\ Decorated => ee.ProcessState = cmd.ProcessState
            /\ ee.ProcessState /= cmd.ProcessState =>
                   /\ ret.result = ret.err
                   /\ ~ret.envRead

\* C1 witness: two completed invocations of the same path and arguments have both
\* failed, and the error of one has been wrapped with the descriptor of the other.
C1_Witness ==
    /\ ret.op = "Wrap"
    /\ IsExitStatusError(ret.err)
    /\ ret.cmd /= 0
    /\ cmds[ret.cmd].ProcessState /= 0
    /\ cmds[ret.cmd].ProcessState /= errs[ret.err.ptr].ProcessState
    /\ \E e \in 1..Len(errs) : errs[e].ProcessState = cmds[ret.cmd].ProcessState
    /\ \E c \in 1..Len(cmds) :
          /\ c /= ret.cmd
          /\ cmds[c].ProcessState = errs[ret.err.ptr].ProcessState
          /\ cmds[c].Path = cmds[ret.cmd].Path
          /\ Elems(arrays, cmds[c].Args) = Elems(arrays, cmds[ret.cmd].Args)
    /\ ret.result = ret.err

\* C2: Wrap of a nil error, or of an error that is not a process-exit-status error,
\* returns its err argument itself for every descriptor, the nil one included; it
\* reads nothing of the descriptor, the environment or the working directory.
C2_AbsentOrForeignReturned ==
    (ret.op = "Wrap" /\ ~IsExitStatusError(ret.err)) =>
        /\ ~ret.panic
        /\ ret.result = ret.err
        /\ ~ret.envRead
        /\ ~ret.getwd

\* C2 witness: the sentinel error has been wrapped with a nil descriptor.
C2_Witness ==
    /\ ret.op = "Wrap"
    /\ ret.err.kind = "err"
    /\ errs[ret.err.ptr].type = "*errors.errorString"
    /\ ret.cmd = 0
    /\ ret.result = ret.err

\* C5: Unwrap of a decorated error is the very error Wrap was given, and its Error()
\* is that error's message.
C5_UnwrapAndErrorOfOriginal ==
    /\ ret.op = "Unwrap" => ret.result = origin[ret.target]
    /\ ret.op = "Error" => ret.result = errs[origin[ret.target].ptr].msg

\* C5 witness: the errors of two invocations are both decorated, and the second
\* decorated value has been unwrapped.
C5_Witness ==
    /\ ret.op = "Unwrap"
    /\ Len(wrapped) = 2
    /\ origin[1] /= origin[2]
    /\ ret.target = 2
    /\ ret.result = origin[2]

---------------------------------------------------------------------------
(* Claims checked under SpecCapture.                                       *)

\* C3 as stated: with an explicit environment that is populated, ChildEnv is the
\* parent snapshot merged with the parsed explicit environment; with none, ChildEnv
\* has the contents of ParentEnv.
C3_ChildEnvMerged ==
    Decorated =>
        LET w == wrapped[ret.result.ptr]
            cmd == cmds[ret.cmd]
        IN  /\ (~cmd.Env.isNil /\ Len(cmd.Env.vars) > 0) =>
                   w.ChildEnv = Merge(ParentSnapshot, Parse(cmd.Env.vars))
            /\ cmd.Env.isNil => w.ChildEnv = w.ParentEnv

\* C3 amended: with an explicit environment that is populated, ChildEnv is the parsed
\* explicit environment alone, which is the merge with the parent snapshot exactly
\* when the explicit environment sets every parent variable; with none, ChildEnv has
\* the contents of ParentEnv.
C3_ChildEnvParsed ==
    Decorated =>
        LET w == wrapped[ret.result.ptr]
            cmd == cmds[ret.cmd]
        IN  /\ (~cmd.Env.isNil /\ Len(cmd.Env.vars) > 0) =>
                   /\ w.ChildEnv = Parse(cmd.Env.vars)
                   /\ (w.ChildEnv = Merge(ParentSnapshot, Parse(cmd.Env.vars)))
                          <=> (DOMAIN ParentSnapshot \subseteq KeysOf(cmd.Env.vars))
            /\ cmd.Env.isNil => w.ChildEnv = w.ParentEnv

\* C3 witness: a decorated error of a command whose explicit environment is populated
\* and leaves a parent variable unset.
C3_Witness ==
    /\ Decorated
    /\ ~cmds[ret.cmd].Env.isNil
    /\ Len(cmds[ret.cmd].Env.vars) > 0
    /\ \E k \in DOMAIN ParentSnapshot : k \notin KeysOf(cmds[ret.cmd].Env.vars)

\* C4: the explicit environment is a tri-state: unset, ChildEnv is ParentEnv; set,
\* ChildEnv holds exactly the explicit entries, so it is empty for an empty explicit
\* environment and holds no variable of the parent alone; ParentEnv is the parent
\* snapshot in every case.
C4_TriStateEnv ==
    Decorated =>
        LET w == wrapped[ret.result.ptr]
            cmd == cmds[ret.cmd]
        IN  /\ w.ParentEnv = ParentSnapshot
            /\ cmd.Env.isNil => w.ChildEnv = ParentSnapshot
            /\ ~cmd.Env.isNil =>
                   /\ DOMAIN w.ChildEnv = KeysOf(cmd.Env.vars)
                   /\ \A k \in DOMAIN w.ChildEnv : w.ChildEnv[k] = LastValue(cmd.Env.vars, k)
                   /\ Len(cmd.Env.vars) = 0 => w.ChildEnv = EmptyMap
                   /\ \A k \in DOMAIN ParentSnapshot :
                          k \notin KeysOf(cmd.Env.vars) => k \notin DOMAIN w.ChildEnv

\* C4 witness: a decorated error of a command whose explicit environment is set and
\* empty, wrapped while the parent environment holds a variable.
C4_Witness ==
    /\ Decorated
    /\ ~cmds[ret.cmd].Env.isNil
    /\ Len(cmds[ret.cmd].Env.vars) = 0
    /\ DOMAIN ParentSnapshot /= {}
    /\ wrapped[ret.result.ptr].ChildEnv = EmptyMap
    /\ wrapped[ret.result.ptr].ParentEnv /= EmptyMap

\* the context of a decorated error that a reader of it sees
Context(h, w) ==
    [Path |-> w.Path, Args |-> Elems(h, w.Args), Dir |-> w.Dir,
     ParentEnv |-> w.ParentEnv, ChildEnv |-> w.ChildEnv, ExitError |-> w.ExitError]

\* C9: no step of the program changes the Path, Args, Dir, ParentEnv or ChildEnv of a
\* decorated error that exists.
C9_DecoratedImmutable ==
    [][\A i \in 1..Len(wrapped) :
           Context(arrays', wrapped'[i]) = Context(arrays, wrapped[i])]_vars

\* What does hold of C9: the fields of a decorated error never change, and its
\* argument slice keeps its length; only the elements, shared with cmd.Args, do.
C9_FieldsUnchanged ==
    [][\A i \in 1..Len(wrapped) : wrapped'[i] = wrapped[i]]_vars

\* C10: a matched Wrap always decorates; Dir is the descriptor's directory when that
\* is set, without a call of os.Getwd, else the working directory when os.Getwd
\* succeeds, else empty, and Path, Args, ParentEnv and ChildEnv are filled in the
\* same whether or not os.Getwd succeeds.
C10_DirBestEffort ==
    (/\ ret.op = "Wrap"
     /\ IsExitStatusError(ret.err)
     /\ ret.cmd /= 0
     /\ errs[ret.err.ptr].ProcessState = cmds[ret.cmd].ProcessState) =>
        /\ Decorated
        /\ LET w == wrapped[ret.result.ptr]
               cmd == cmds[ret.cmd]
           IN  /\ Len(cmd.Dir) > 0 => (w.Dir = cmd.Dir /\ ~ret.getwd)
               /\ (Len(cmd.Dir) = 0 /\ cwd.ok) => (w.Dir = cwd.dir /\ ret.getwd)
               /\ (Len(cmd.Dir) = 0 /\ ~cwd.ok) => (w.Dir = <<>> /\ ret.getwd)
               /\ w.Path = cmd.Path
               /\ w.Args = cmd.Args
               /\ w.ExitError = ret.err.ptr
               /\ w.ParentEnv = ParentSnapshot
               /\ w.ChildEnv = IF cmd.Env.isNil THEN ParentSnapshot
                               ELSE Parse(cmd.Env.vars)

\* C10 witness: a matched Wrap of a command without a directory has decorated the
\* error while os.Getwd fails.
C10_Witness ==
    /\ Decorated
    /\ Len(cmds[ret.cmd].Dir) = 0
    /\ ~cwd.ok
    /\ ret.getwd
    /\ wrapped[ret.result.ptr].Dir = <<>>
    /\ wrapped[ret.result.ptr].ParentEnv /= EmptyMap

---------------------------------------------------------------------------
(* Claims checked under SpecFormat.                                        *)

\* C6: formatting a decorated error with verb v and no flag gives the command line,
\* ": " and the underlying message, followed by ": " and the standard-error bytes
\* exactly when the underlying error holds captured bytes, and nothing else.
C6_BasicFormatExact ==
    (ret.op = "Format" /\ ret.verb = "v" /\ ~ret.plus) =>
        LET w == wrapped[ret.target]
            ee == errs[origin[ret.target].ptr]
            line == Rendering(w.Path, Elems(arrays, w.Args)) \o <<":", " ">> \o ee.msg
        IN  /\ ~ret.result.panic
            /\ ret.result.out = IF ee.Stderr.isNil THEN line
                                ELSE line \o <<":", " ">> \o ee.Stderr.bytes

\* What does hold of C6: the same, for a decorated error whose Args is not empty.
C6_BasicFormatWithArgs ==
    (/\ ret.op = "Format" /\ ret.verb = "v" /\ ~ret.plus
     /\ wrapped[ret.target].Args.len > 0) =>
        LET w == wrapped[ret.target]
            ee == errs[origin[ret.target].ptr]
            line == Rendering(w.Path, Elems(arrays, w.Args)) \o <<":", " ">> \o ee.msg
        IN  /\ ~ret.result.panic
            /\ ret.result.out = IF ee.Stderr.isNil THEN line
                                ELSE line \o <<":", " ">> \o ee.Stderr.bytes

\* C7: formatting a decorated error with a verb other than v gives no output and
\* does not panic, with and without the + flag.
C7_OtherVerbSilent ==
    (ret.op = "Format" /\ ret.verb /= "v") =>
        /\ ~ret.result.panic
        /\ ret.result.out = <<>>

\* C7 witness: a decorated error whose Args is empty, which verb v cannot render, has
\* been formatted with verb d and the + flag.
C7_Witness ==
    /\ ret.op = "Format"
    /\ ret.verb = "d"
    /\ ret.plus
    /\ wrapped[ret.target].Args.len = 0
    /\ ret.result.out = <<>>

---------------------------------------------------------------------------
(* Claims checked under SpecCmdline.                                       *)

\* C8: for every path and every argument sequence, the empty one included, the
\* renderer returns, and returns the base name of the path followed by the arguments
\* after the first, joined with single spaces.
C8_RendererTotal ==
    ret.op = "Cmdline" =>
        /\ ~ret.result.panic
        /\ ret.result.out = Rendering(cmds[ret.cmd].Path,
                                      Elems(arrays, cmds[ret.cmd].Args))

\* What does hold of C8: the same, for every argument sequence that is not empty.
C8_RendererWithArgs ==
    (ret.op = "Cmdline" /\ cmds[ret.cmd].Args.len > 0) =>
        /\ ~ret.result.panic
        /\ ret.result.out = Rendering(cmds[ret.cmd].Path,
                                      Elems(arrays, cmds[ret.cmd].Args))

====
